---- MODULE Spec2Model ----
(***************************************************************************)
(* Wallpaper scraper: ImageFilter, Categorizer and the WallpaperScraper    *)
(* download pipeline of scraper.py, as a state machine.                    *)
(*                                                                         *)
(* Text is a sequence of one-character strings, so that substring search,  *)
(* lower-casing and suffix tests are computed and not assumed.             *)
(***************************************************************************)
EXTENDS Integers, Sequences, FiniteSets, TLC

(* ------------------------------ bounds --------------------------------- *)

\* Number of URLs a caller passes to one scraper, over all its download_images
\* calls; also the longest metadata_list it passes.
MaxUrls == 2
\* Largest concurrent_downloads the scraper is constructed with.
MaxConc == 2
\* Number of download_images calls made on one scraper.
MaxRuns == 2
\* Largest width, height and size threshold of a directly called check_image.
MaxDim == 3
\* Largest buffer length and min_file_size of a directly called check_image.
MaxLen == 2

(* --------------------------- config.py --------------------------------- *)

DEFAULT_MIN_WIDTH == 1920
DEFAULT_MIN_HEIGHT == 1080
\* 1.5 and 3.0, as exact fractions num/den
DEFAULT_MIN_ASPECT_RATIO == [num |-> 3, den |-> 2]
DEFAULT_MAX_ASPECT_RATIO == [num |-> 3, den |-> 1]
DEFAULT_MIN_FILE_SIZE == 100 * 1024

SUPPORTED_FORMATS ==
    << <<".","j","p","g">>, <<".","j","p","e","g">>, <<".","p","n","g">>,
       <<".","w","e","b","p">>, <<".","b","m","p">> >>

\* The table in its insertion order, which is the order dict.items() yields.
CATEGORY_KEYWORDS ==
    <<
       [category |-> "nature", keywords |-> <<
            <<"n","a","t","u","r","e">>,
            <<"l","a","n","d","s","c","a","p","e">>,
            <<"m","o","u","n","t","a","i","n">>,
            <<"f","o","r","e","s","t">>,
            <<"o","c","e","a","n">>,
            <<"b","e","a","c","h">>,
            <<"s","u","n","s","e","t">>,
            <<"s","u","n","r","i","s","e">> >>],
       [category |-> "space", keywords |-> <<
            <<"s","p","a","c","e">>,
            <<"g","a","l","a","x","y">>,
            <<"n","e","b","u","l","a">>,
            <<"p","l","a","n","e","t">>,
            <<"s","t","a","r">>,
            <<"c","o","s","m","o","s">>,
            <<"a","s","t","r","o","n","o","m","y">> >>],
       [category |-> "abstract", keywords |-> <<
            <<"a","b","s","t","r","a","c","t">>,
            <<"p","a","t","t","e","r","n">>,
            <<"g","e","o","m","e","t","r","i","c">>,
            <<"m","i","n","i","m","a","l","i","s","t">>,
            <<"a","r","t","i","s","t","i","c">> >>],
       [category |-> "city", keywords |-> <<
            <<"c","i","t","y">>,
            <<"u","r","b","a","n">>,
            <<"s","k","y","l","i","n","e">>,
            <<"a","r","c","h","i","t","e","c","t","u","r","e">>,
            <<"b","u","i","l","d","i","n","g">>,
            <<"s","t","r","e","e","t">> >>],
       [category |-> "animals", keywords |-> <<
            <<"a","n","i","m","a","l">>,
            <<"w","i","l","d","l","i","f","e">>,
            <<"c","a","t">>,
            <<"d","o","g">>,
            <<"b","i","r","d">>,
            <<"l","i","o","n">>,
            <<"t","i","g","e","r">> >>],
       [category |-> "tech", keywords |-> <<
            <<"t","e","c","h","n","o","l","o","g","y">>,
            <<"c","o","m","p","u","t","e","r">>,
            <<"d","i","g","i","t","a","l">>,
            <<"c","y","b","e","r","p","u","n","k">>,
            <<"f","u","t","u","r","i","s","t","i","c">> >>],
       [category |-> "fantasy", keywords |-> <<
            <<"f","a","n","t","a","s","y">>,
            <<"d","r","a","g","o","n">>,
            <<"m","a","g","i","c">>,
            <<"m","e","d","i","e","v","a","l">>,
            <<"a","r","t","w","o","r","k">> >>]
    >>

(* ------------------------- text primitives ----------------------------- *)

UPPER == <<"A","B","C","D","E","F","G","H","I","J","K","L","M",
           "N","O","P","Q","R","S","T","U","V","W","X","Y","Z">>
LOWER == <<"a","b","c","d","e","f","g","h","i","j","k","l","m",
           "n","o","p","q","r","s","t","u","v","w","x","y","z">>
DIGITS == <<"0","1","2","3","4","5","6","7","8","9">>

Range(s) == { s[i] : i \in 1..Len(s) }

\* str.lower(), one character
LowerChar(c) ==
    IF \E i \in 1..Len(UPPER) : UPPER[i] = c
    THEN LOWER[CHOOSE i \in 1..Len(UPPER) : UPPER[i] = c]
    ELSE c

\* str.lower()
Lower(s) == [i \in 1..Len(s) |-> LowerChar(s[i])]

\* `sub in s` for strings
Contains(s, sub) ==
    \E i \in 1..(Len(s) - Len(sub) + 1) : SubSeq(s, i, i + Len(sub) - 1) = sub

\* s.endswith(suffix)
EndsWith(s, suffix) ==
    /\ Len(suffix) <= Len(s)
    /\ SubSeq(s, Len(s) - Len(suffix) + 1, Len(s)) = suffix

\* s.startswith(prefix)
StartsWith(s, prefix) ==
    /\ Len(prefix) <= Len(s)
    /\ SubSeq(s, 1, Len(prefix)) = prefix

\* Position of the first character of s that lies in chars, Len(s)+1 if none.
FirstOf(s, chars) ==
    IF \E i \in 1..Len(s) : s[i] \in chars
    THEN CHOOSE i \in 1..Len(s) :
            /\ s[i] \in chars
            /\ \A j \in 1..(i - 1) : s[j] \notin chars
    ELSE Len(s) + 1

\* ' '.join(fields)
RECURSIVE JoinSpace(_)
JoinSpace(fields) ==
    IF Len(fields) = 0 THEN << >>
    ELSE IF Len(fields) = 1 THEN fields[1]
    ELSE fields[1] \o <<" ">> \o JoinSpace(Tail(fields))

\* sum(1 for x in xs if P(x)), for a sequence of booleans
RECURSIVE CountTrue(_)
CountTrue(bs) ==
    IF Len(bs) = 0 THEN 0
    ELSE (IF bs[1] THEN 1 ELSE 0) + CountTrue(Tail(bs))

(* ------------------- ImageFilter.check_image --------------------------- *)

\* ImageFilter.__init__: the five thresholds; ratios are fractions num/den.
ImageFilter(min_width, min_height, min_aspect_ratio, max_aspect_ratio, min_file_size) ==
    [min_width |-> min_width, min_height |-> min_height,
     min_aspect_ratio |-> min_aspect_ratio, max_aspect_ratio |-> max_aspect_ratio,
     min_file_size |-> min_file_size]

\* ImageFilter() with every argument defaulted
DefaultImageFilter ==
    ImageFilter(DEFAULT_MIN_WIDTH, DEFAULT_MIN_HEIGHT, DEFAULT_MIN_ASPECT_RATIO,
                DEFAULT_MAX_ASPECT_RATIO, DEFAULT_MIN_FILE_SIZE)

\* aspect_ratio = width / height if height > 0 else 0, compared with r = num/den
\* A lower bound that also turns away the ratio equal to it
AspectBelow_exclusive(width, height, r) ==
    IF height > 0 THEN width * r.den <= r.num * height ELSE 0 <= r.num

AspectBelow(width, height, r) ==
    IF height > 0 THEN width * r.den < r.num * height ELSE 0 < r.num

AspectAbove(width, height, r) ==
    IF height > 0 THEN width * r.den > r.num * height ELSE 0 > r.num

\* A byte buffer is what check_image can observe of it: its length and what
\* Image.open makes of it: decode = "ok" with a size, "UnidentifiedImageError"
\* (an OSError, also standing for ValueError), or "DecompressionBombError"
\* (an Exception that is neither OSError nor ValueError).
\* The result is "True", "False", or "raise" when the exception is not one of
\* those the except clause names.
check_image(f, image_data) ==
    IF image_data.len < f.min_file_size THEN "False"
    ELSE IF image_data.decode = "UnidentifiedImageError" THEN "False"
    ELSE IF image_data.decode = "DecompressionBombError" THEN "raise"
    ELSE IF image_data.width < f.min_width \/ image_data.height < f.min_height THEN "False"
    ELSE IF \/ AspectBelow(image_data.width, image_data.height, f.min_aspect_ratio)
            \/ AspectAbove(image_data.width, image_data.height, f.max_aspect_ratio)
         THEN "False"
    ELSE "True"

(* --------------------- Categorizer.categorize -------------------------- *)

\* text_fields, in the order the code appends them
TextFields(metadata) ==
    (IF "title" \in DOMAIN metadata THEN << Lower(metadata["title"]) >> ELSE << >>)
    \o (IF "description" \in DOMAIN metadata THEN << Lower(metadata["description"]) >> ELSE << >>)
    \o (IF "alt" \in DOMAIN metadata THEN << Lower(metadata["alt"]) >> ELSE << >>)
    \o (IF "url" \in DOMAIN metadata THEN << Lower(metadata["url"]) >> ELSE << >>)

\* score of one table entry against combined_text
Score(entry, combined_text) ==
    CountTrue([k \in 1..Len(entry.keywords) |-> Contains(combined_text, entry.keywords[k])])

\* A categorize whose max() keeps the last category of maximal score
categorize_last(keywords, metadata) ==
    LET combined_text == JoinSpace(TextFields(metadata))
        score == [c \in 1..Len(keywords) |-> Score(keywords[c], combined_text)]
        scored == { c \in 1..Len(keywords) : score[c] > 0 }
    IN  IF scored # {}
        THEN keywords[CHOOSE c \in scored :
                        /\ \A d \in scored : score[d] <= score[c]
                        /\ \A d \in scored : d > c => score[d] < score[c]].category
        ELSE "uncategorized"

\* Categorizer.categorize with the table `keywords`: max() over the scored
\* categories returns the first one of maximal score in insertion order.
categorize(keywords, metadata) ==
    LET combined_text == JoinSpace(TextFields(metadata))
        score == [c \in 1..Len(keywords) |-> Score(keywords[c], combined_text)]
        scored == { c \in 1..Len(keywords) : score[c] > 0 }
    IN  IF scored # {}
        THEN keywords[CHOOSE c \in scored :
                        /\ \A d \in scored : score[d] <= score[c]
                        /\ \A d \in scored : d < c => score[d] < score[c]].category
        ELSE "uncategorized"

(* ------------------ WallpaperScraper naming helpers -------------------- *)

\* Characters that may form a URL scheme (urllib.parse.scheme_chars)
SchemeChars == Range(UPPER) \cup Range(LOWER) \cup Range(DIGITS) \cup {"+", "-", "."}

\* urlparse(url).path: drop "scheme:", then "//netloc", then "#fragment",
\* then "?query"; what is left is the path.
UrlPath(url) ==
    LET colon == FirstOf(url, {":"})
        hasScheme == /\ colon > 1
                     /\ colon <= Len(url)
                     /\ \A i \in 1..(colon - 1) : url[i] \in SchemeChars
        afterScheme == IF hasScheme THEN SubSeq(url, colon + 1, Len(url)) ELSE url
        afterNetloc ==
            IF StartsWith(afterScheme, <<"/", "/">>)
            THEN LET rest == SubSeq(afterScheme, 3, Len(afterScheme))
                 IN  SubSeq(rest, FirstOf(rest, {"/", "?", "#"}), Len(rest))
            ELSE afterScheme
        noFragment == SubSeq(afterNetloc, 1, FirstOf(afterNetloc, {"#"}) - 1)
    IN  SubSeq(noFragment, 1, FirstOf(noFragment, {"?"}) - 1)

\* ext_map of _get_image_extension
ExtMap(content_type) ==
    CASE content_type = "image/jpeg" -> <<".","j","p","g">>
      [] content_type = "image/png"  -> <<".","p","n","g">>
      [] content_type = "image/webp" -> <<".","w","e","b","p">>
      [] content_type = "image/bmp"  -> <<".","b","m","p">>

ExtMapKeys == {"image/jpeg", "image/png", "image/webp", "image/bmp"}

\* A resolution that asks the URL first and the content type second
get_image_extension_url_first(url, content_type) ==
    LET path == Lower(UrlPath(url))
        hits == { i \in 1..Len(SUPPORTED_FORMATS) : EndsWith(path, SUPPORTED_FORMATS[i]) }
    IN  IF hits # {}
        THEN SUPPORTED_FORMATS[CHOOSE i \in hits : \A j \in hits : i <= j]
        ELSE IF content_type # "" /\ content_type \in ExtMapKeys
             THEN ExtMap(content_type)
             ELSE <<".","j","p","g">>

\* WallpaperScraper._get_image_extension; content_type "" is the falsy value
\* that response.headers.get('content-type', '') yields for a missing header.
get_image_extension(url, content_type) ==
    IF content_type # "" /\ content_type \in ExtMapKeys
    THEN ExtMap(content_type)
    ELSE LET path == Lower(UrlPath(url))
             hits == { i \in 1..Len(SUPPORTED_FORMATS) : EndsWith(path, SUPPORTED_FORMATS[i]) }
         IN  IF hits # {}
             THEN SUPPORTED_FORMATS[CHOOSE i \in hits : \A j \in hits : i <= j]
             ELSE <<".","j","p","g">>

(* -------------------------- extract_image_urls ------------------------ *)

\* urllib.parse.urljoin(base, ref) for a base of the form scheme://host/path
\* and a ref that is an absolute URL (returned as it is), a path starting
\* with "/" (put after scheme://host) or a relative path without dot
\* segments (put after the base's last "/")
urljoin(base, ref) ==
    LET colon == FirstOf(ref, {":"})
        hasScheme == /\ colon > 1
                     /\ colon <= Len(ref)
                     /\ \A i \in 1..(colon - 1) : ref[i] \in SchemeChars
        hostStart == FirstOf(base, {":"}) + 3
        afterHost == SubSeq(base, hostStart, Len(base))
        hostEnd == hostStart + FirstOf(afterHost, {"/", "?", "#"}) - 2
        basePath == UrlPath(base)
        lastSlash == IF \E i \in 1..Len(basePath) : basePath[i] = "/"
                     THEN CHOOSE i \in 1..Len(basePath) :
                             /\ basePath[i] = "/"
                             /\ \A j \in (i + 1)..Len(basePath) : basePath[j] # "/"
                     ELSE 0
    IN  IF hasScheme THEN ref
        ELSE IF StartsWith(ref, <<"/">>) THEN SubSeq(base, 1, hostEnd) \o ref
        ELSE SubSeq(base, 1, hostEnd) \o
             (IF lastSlash = 0 THEN <<"/">> ELSE SubSeq(basePath, 1, lastSlash)) \o ref

\* validators.url(value): truthy for scheme://host... with scheme http, https
\* or ftp, a host made of dot-separated labels with at least one dot, and no
\* white space anywhere
validators_url(value) ==
    \E scheme \in { <<"h","t","t","p",":","/","/">>, <<"h","t","t","p","s",":","/","/">>,
                     <<"f","t","p",":","/","/">> } :
        /\ StartsWith(value, scheme)
        /\ LET rest == SubSeq(value, Len(scheme) + 1, Len(value))
               host == SubSeq(rest, 1, FirstOf(rest, {"/", "?", "#"}) - 1)
           IN  /\ Len(host) >= 3
               /\ \E i \in 2..(Len(host) - 1) : host[i] = "."
               /\ \A i \in 1..Len(host) :
                     host[i] \in Range(UPPER) \cup Range(LOWER) \cup Range(DIGITS) \cup {"-", "."}
               /\ host[1] # "." /\ host[Len(host)] # "."
        /\ \A i \in 1..Len(value) : value[i] \notin {" ", "\t", "\n"}

\* An <img> element is the dict of its attributes. A lazy-load source that
\* is asked first
image_source_lazy_first(img) ==
    IF "data-src" \in DOMAIN img /\ img["data-src"] # << >> THEN img["data-src"]
    ELSE IF "src" \in DOMAIN img THEN img["src"]
    ELSE << >>

\* img.get('src') or img.get('data-src') (line 283); << >> stands for both
\* falsy values, None and '', which line 284 treats alike
image_source(img) ==
    IF "src" \in DOMAIN img /\ img["src"] # << >> THEN img["src"]
    ELSE IF "data-src" \in DOMAIN img THEN img["data-src"]
    ELSE << >>

\* Lines 287-289; base_url << >> is None
resolve(src, base_url) ==
    IF base_url # << >> /\ ~StartsWith(src, <<"h","t","t","p">>)
    THEN urljoin(base_url, src)
    ELSE src

\* img.get(name, '')
attribute_or_empty(img, name) == IF name \in DOMAIN img THEN img[name] ELSE << >>

\* extract_image_urls(html_content, base_url), html_content being given by
\* the <img> elements soup.find_all('img') yields, in document order
RECURSIVE extract_image_urls(_, _)
extract_image_urls(imgs, base_url) ==
    IF Len(imgs) = 0 THEN << >>
    ELSE LET img == Head(imgs)
             src == image_source(img)
             url == resolve(src, base_url)
         IN  (IF src = << >> \/ ~validators_url(url)
              THEN << >>
              ELSE << [url |-> url,
                       metadata |-> [title |-> attribute_or_empty(img, "title"),
                                     alt |-> attribute_or_empty(img, "alt"),
                                     description |-> << >>]] >>)
             \o extract_image_urls(Tail(imgs), base_url)

\* \w and [-\s] of the two regular expressions, over ASCII
WordChars == Range(UPPER) \cup Range(LOWER) \cup Range(DIGITS) \cup {"_"}
HyphenSpace == {"-", " ", "\t", "\n"}

\* re.sub(r'[-\s]+', '_', s): every maximal run becomes one underscore
RECURSIVE CollapseRuns(_)
CollapseRuns(s) ==
    IF Len(s) = 0 THEN << >>
    ELSE IF s[1] \in HyphenSpace
         THEN LET rest == Tail(s)
                  next == IF \E i \in 1..Len(rest) : rest[i] \notin HyphenSpace
                          THEN CHOOSE i \in 1..Len(rest) :
                                  /\ rest[i] \notin HyphenSpace
                                  /\ \A j \in 1..(i - 1) : rest[j] \in HyphenSpace
                          ELSE Len(rest) + 1
              IN  <<"_">> \o CollapseRuns(SubSeq(rest, next, Len(rest)))
         ELSE << s[1] >> \o CollapseRuns(Tail(s))

\* The two re.sub calls and the [:50] slice
CleanTitle(title) ==
    LET kept == SelectSeq(title, LAMBDA c : c \in WordChars \cup HyphenSpace)
        collapsed == CollapseRuns(kept)
    IN  SubSeq(collapsed, 1, IF Len(collapsed) < 50 THEN Len(collapsed) ELSE 50)

\* hashlib.md5(url.encode()).hexdigest()[:8], tabulated for the URLs of the
\* model (the digests are those MD5 gives for exactly these strings).
U_plain == <<"h","t","t","p",":","/","/","x",".","c","o","/","a",".","p","n","g">>
U_cat == <<"h","t","t","p",":","/","/","x",".","c","o","/","c","a","t",".","j","p","g">>
U_query == <<"h","t","t","p",":","/","/","x",".","c","o","/","i","m","g","?","i","d","=","1">>
U_webp == <<"h","t","t","p",":","/","/","x",".","c","o","/","p","i","c",".","w","e","b","p">>
U_upper == <<"h","t","t","p",":","/","/","x",".","c","o","/","A",".","P","N","G">>
U_qext == <<"h","t","t","p",":","/","/","x",".","c","o","/","i","m","g","?","f","=","a",".","p","n","g">>
U_jpeg == <<"h","t","t","p",":","/","/","x",".","c","o","/","b",".","j","p","e","g">>
U_frag == <<"h","t","t","p",":","/","/","x",".","c","o","/","c",".","b","m","p","#","t","o","p">>
U_gif == <<"h","t","t","p",":","/","/","x",".","c","o","/","d",".","g","i","f">>
U_9260 == <<"h","t","t","p",":","/","/","x",".","c","o","/","9","2","6","0",".","j","p","g">>
U_16307 == <<"h","t","t","p",":","/","/","x",".","c","o","/","1","6","3","0","7",".","j","p","g">>

url_hash(url) ==
    CASE url = U_plain -> <<"f","3","1","7","9","3","b","b">>
      [] url = U_cat   -> <<"4","a","1","7","2","f","1","8">>
      [] url = U_query -> <<"b","f","4","7","3","d","b","9">>
      [] url = U_webp -> <<"1","c","9","7","0","f","3","7">>
      [] url = U_upper -> <<"e","b","5","3","b","2","8","3">>
      [] url = U_qext -> <<"1","b","7","3","6","2","6","6">>
      [] url = U_jpeg -> <<"4","1","9","a","6","0","c","e">>
      [] url = U_frag -> <<"6","5","6","9","2","c","a","0">>
      [] url = U_gif -> <<"f","8","0","5","1","b","4","4">>
      [] url = U_9260 -> <<"7","9","2","e","8","e","6","3">>
      [] url = U_16307 -> <<"7","9","2","e","8","e","6","3">>

\* WallpaperScraper._generate_filename
generate_filename(url, metadata, extension) ==
    IF "title" \in DOMAIN metadata /\ metadata["title"] # << >>
    THEN CleanTitle(metadata["title"]) \o <<"_">> \o url_hash(url) \o extension
    ELSE <<"w","a","l","l","p","a","p","e","r","_">> \o url_hash(url) \o extension

(* ----------------------- the scraper's state -------------------------- *)

VARIABLES
    concurrent_downloads,   \* self.concurrent_downloads
    categorizer_arg,        \* the categorizer argument of __init__: "None" or "Categorizer"
    categorizer,            \* self.categorizer
    image_filter,           \* self.image_filter
    progress_callback,      \* self.progress_callback: "None" or "callable"
    session,                \* self.session: "None", "open" or "closed"
    stats,                  \* self.stats
    run_state,              \* download_images: "idle", "running", "returned" or "raised"
    runs,                   \* number of download_images calls so far
    submitted,              \* number of URLs passed in those calls
    image_urls,             \* argument of the current call
    metadata_list,          \* argument of the current call: None, or a list of dicts
    heap,                   \* the metadata dict objects, by identity
    tasks,                  \* the (url, metadata) pairs gather was given; metadata is a heap index
    pc,                     \* where each task stands
    semaphore,              \* value of the asyncio.Semaphore
    content_type,           \* per task, the response's content type once it has arrived
    dirs,                   \* category directories existing under output_dir
    files,                  \* files under output_dir: records [category, filename, size]
    incs,                   \* history: per task, the counters it incremented, in order
    events,                 \* history: per task, the progress_callback calls, in order
    cause,                  \* history: per task, what first went wrong ("none" if nothing)
    stats_at_start,         \* history: self.stats right after line 237 of the current call
    received,               \* history: per task, what Image.open makes of the body it read
    placed,                 \* history: per task, the path of the file it wrote
    downloaded_into,        \* history: the categories some download was counted into so far
    snapshot,               \* the dict the last get_stats() returned, as its caller holds it
    call                    \* history: the last direct call of a policy method, with its result

vars == << concurrent_downloads, categorizer_arg, categorizer, image_filter,
           progress_callback, session, stats, run_state, runs, submitted,
           image_urls, metadata_list, heap, tasks, pc, semaphore, content_type, dirs, files,
           incs, events, cause, stats_at_start, received, placed, downloaded_into,
           snapshot, call >>

\* What the download pipeline never changes: the constructor's arguments
\* (and the record of direct calls of the policy methods, and the caller's
\* dict from get_stats)
config_vars == << concurrent_downloads, categorizer_arg, categorizer, image_filter,
                  progress_callback, snapshot, call >>

(* ------------------------- inputs of the model ------------------------- *)

Urls == { U_plain, U_cat }

T_space == <<"D","e","e","p"," ","S","p","a","c","e"," ","N","e","b","u","l","a">>

\* metadata dicts a caller passes: {} and {'title': 'Deep Space Nebula'}
EmptyDict == [k \in {} |-> << >>]
MetaChoices == { EmptyDict, [k \in {"title"} |-> T_space] }

SeqsUpTo(S, n) == UNION { [1..k -> S] : k \in 0..n }

\* The metadata_list argument: None (the default), or a list of dicts
NoMetadataList == [none |-> TRUE, list |-> << >>]
MetadataLists == { NoMetadataList }
                 \cup { [none |-> FALSE, list |-> l] : l \in SeqsUpTo(MetaChoices, MaxUrls) }

\* The detail argument of the callback: a reason text, a file path, or (for
\* 'filtered', which is called with two arguments) nothing. A reason text is
\* "Network error: ", "File error: " or "Error: " followed by str(e); the
\* model keeps only that it is a reason.
NoPath == [category |-> "", filename |-> << >>]
NoDetail == [kind |-> "absent", filepath |-> NoPath]
ReasonText == [kind |-> "reason", filepath |-> NoPath]
PathDetail(filepath) == [kind |-> "filepath", filepath |-> filepath]

\* Response statuses; 200 is the only one download_image accepts.
StatusCodes == { 200, 404, 500 }

\* Values of response.headers.get('content-type', '')
ContentTypes == { "", "image/png", "text/html" }

\* Byte buffers a response body can be
Bodies ==
    { [len |-> 200000, decode |-> "ok", width |-> 3840, height |-> 2160],
      [len |-> 200000, decode |-> "ok", width |-> 1000, height |-> 1000],
      [len |-> 50000,  decode |-> "ok", width |-> 3840, height |-> 2160],
      [len |-> 200000, decode |-> "UnidentifiedImageError", width |-> 0, height |-> 0],
      [len |-> 200000, decode |-> "DecompressionBombError", width |-> 0, height |-> 0] }

ZeroStats == [total |-> 0, downloaded |-> 0, filtered |-> 0, failed |-> 0,
              categories |-> [c \in {} |-> 0]]

(* ---------------------- WallpaperScraper.__init__ ---------------------- *)

\* self.categorizer = categorizer or Categorizer()
init_categorizer(arg) == IF arg # "None" THEN arg ELSE "Categorizer"

\* The keyword table of a Categorizer: Categorizer() takes config.CATEGORY_KEYWORDS
keywords_of(c) == CATEGORY_KEYWORDS

\* The metadata dicts download_image can hold: a caller's dict, with or
\* without the 'url' entry of line 165
MetaStates ==
    MetaChoices
    \cup { [k \in DOMAIN m \cup {"url"} |-> IF k = "url" THEN u ELSE m[k]] :
              m \in MetaChoices, u \in Urls }

\* self.categorizer.categorize(metadata), evaluated once per dict of the model
Categorized == [m \in MetaStates |-> categorize(keywords_of("Categorizer"), m)]

NoCall == [fn |-> "none"]

\* No get_stats() call yet. A snapshot holds its own 'total', 'downloaded',
\* 'filtered' and 'failed' entries; its 'categories' entry is the object
\* self.stats['categories'] itself (dict.copy() is shallow), so it is read
\* from stats. History: at_call is self.stats when get_stats was called,
\* edited whether the caller has changed the snapshot, reached_scraper
\* whether such a change has changed self.stats.
NoSnapshot == [taken |-> FALSE, total |-> 0, downloaded |-> 0, filtered |-> 0, failed |-> 0,
               at_call |-> ZeroStats, edited |-> FALSE, reached_scraper |-> FALSE]

\* The attributes __init__ sets to fixed values (lines 114-123), and the
\* model's bookkeeping before the first call
Fresh ==
    /\ session = "None"
    /\ stats = ZeroStats
    /\ run_state = "idle"
    /\ runs = 0
    /\ submitted = 0
    /\ image_urls = << >>
    /\ metadata_list = NoMetadataList
    /\ heap = << >>
    /\ tasks = << >>
    /\ pc = << >>
    /\ semaphore = 0
    /\ content_type = << >>
    /\ dirs = {}
    /\ files = {}
    /\ incs = << >>
    /\ events = << >>
    /\ cause = << >>
    /\ stats_at_start = ZeroStats
    /\ received = << >>
    /\ placed = << >>
    /\ downloaded_into = {}
    /\ snapshot = NoSnapshot
    /\ call = NoCall

Init ==
    /\ concurrent_downloads \in 0..MaxConc
    /\ categorizer_arg \in {"None", "Categorizer"}
    /\ categorizer = init_categorizer(categorizer_arg)
    /\ image_filter = DefaultImageFilter
    /\ progress_callback \in {"None", "callable"}
    /\ Fresh

(* ---------------- WallpaperScraper.download_images --------------------- *)

Min(a, b) == IF a < b THEN a ELSE b

Finished(state) == state \in {"done", "raised", "cancelled"}

\* download_images up to its await of gather (lines 232-261): the default
\* metadata_list is ONE dict repeated ([{}] * n), total is set and nothing
\* else of self.stats is touched, the session and the semaphore are created
\* and one task per pair of zip(image_urls, metadata_list) is handed to gather.
download_images(urls, mlist) ==
    /\ run_state \in {"idle", "returned", "raised"}
    /\ \A i \in DOMAIN pc : Finished(pc[i])
    /\ runs < MaxRuns
    /\ submitted + Len(urls) <= MaxUrls
    /\ LET objects == IF mlist.none
                      THEN (IF Len(urls) > 0 THEN << EmptyDict >> ELSE << >>)
                      ELSE mlist.list
           refs == IF mlist.none THEN [k \in 1..Len(urls) |-> 1]
                   ELSE [k \in 1..Len(mlist.list) |-> k]
           n == Min(Len(urls), Len(refs))
       IN  /\ heap' = objects
           /\ tasks' = [k \in 1..n |-> [url |-> urls[k], meta |-> refs[k]]]
           /\ pc' = [k \in 1..n |-> "waiting"]
           /\ content_type' = [k \in 1..n |-> ""]
           /\ incs' = [k \in 1..n |-> << >>]
           /\ events' = [k \in 1..n |-> << >>]
           /\ cause' = [k \in 1..n |-> "none"]
           /\ received' = [k \in 1..n |-> "nothing"]
           /\ placed' = [k \in 1..n |-> NoPath]
    /\ runs' = runs + 1
    /\ submitted' = submitted + Len(urls)
    /\ image_urls' = urls
    /\ metadata_list' = mlist
    /\ stats' = [stats EXCEPT !.total = Len(urls)]
    /\ stats_at_start' = [stats EXCEPT !.total = Len(urls)]
    /\ session' = "open"
    /\ semaphore' = concurrent_downloads
    /\ run_state' = "running"
    /\ UNCHANGED << config_vars, dirs, files, downloaded_into >>

(* ---------------- WallpaperScraper.download_image ---------------------- *)

\* if self.progress_callback: self.progress_callback(kind, url, detail)
Notify(ev, kind, url, detail) ==
    IF progress_callback # "None"
    THEN Append(ev, [kind |-> kind, url |-> url, detail |-> detail])
    ELSE ev

\* The callback is the caller's code: a call of it returns or raises.
CallbackRaises(raises) == progress_callback # "None" /\ raises

\* One except clause of download_image (lines 213-230): count the failure,
\* report it, return None. An exception of the callback leaves the coroutine.
ExceptClause(st, inc, ev, url, reason, cb_raises) ==
    [stats  |-> [st EXCEPT !.failed = @ + 1],
     incs   |-> Append(inc, "failed"),
     events |-> Notify(ev, "failed", url, reason),
     pc     |-> IF CallbackRaises(cb_raises) THEN "raised" ELSE "done"]

\* Lines 178-181; an exception of the callback is caught by `except Exception`.
FilteredBranch(st, inc, ev, url, cb_raises, cb_raises_again) ==
    LET st1 == [st EXCEPT !.filtered = @ + 1]
        inc1 == Append(inc, "filtered")
        ev1 == Notify(ev, "filtered", url, NoDetail)
    IN  IF CallbackRaises(cb_raises)
        THEN ExceptClause(st1, inc1, ev1, url, ReasonText, cb_raises_again)
        ELSE [stats |-> st1, incs |-> inc1, events |-> ev1, pc |-> "done"]

\* self.stats['categories'][category] = self.stats['categories'].get(category, 0) + 1
BumpCategory(categories, category) ==
    [c \in DOMAIN categories \cup {category} |->
        IF c \in DOMAIN categories
        THEN (IF c = category THEN categories[c] + 1 ELSE categories[c])
        ELSE 1]

\* A download that is counted but not entered under its category
DownloadedBranch_uncounted(st, inc, ev, url, category, filepath, cb_raises, cb_raises_again) ==
    LET st1 == [st EXCEPT !.downloaded = @ + 1]
        inc1 == Append(inc, "downloaded")
        ev1 == Notify(ev, "downloaded", url, PathDetail(filepath))
    IN  IF CallbackRaises(cb_raises)
        THEN ExceptClause(st1, inc1, ev1, url, ReasonText, cb_raises_again)
        ELSE [stats |-> st1, incs |-> inc1, events |-> ev1, pc |-> "done"]

\* Lines 199-211; an exception of the callback is caught by `except Exception`.
DownloadedBranch(st, inc, ev, url, category, filepath, cb_raises, cb_raises_again) ==
    LET st1 == [st EXCEPT !.downloaded = @ + 1,
                          !.categories = BumpCategory(@, category)]
        inc1 == Append(inc, "downloaded")
        ev1 == Notify(ev, "downloaded", url, PathDetail(filepath))
    IN  IF CallbackRaises(cb_raises)
        THEN ExceptClause(st1, inc1, ev1, url, ReasonText, cb_raises_again)
        ELSE [stats |-> st1, incs |-> inc1, events |-> ev1, pc |-> "done"]

\* The task of candidate i ends with the result r of one of the branches;
\* leaving `async with semaphore` releases the slot.
Leave(i, r) ==
    /\ stats' = r.stats
    /\ incs' = [incs EXCEPT ![i] = r.incs]
    /\ events' = [events EXCEPT ![i] = r.events]
    /\ pc' = [pc EXCEPT ![i] = r.pc]
    /\ content_type' = [content_type EXCEPT ![i] = ""]
    /\ semaphore' = semaphore + 1

\* A semaphore that never makes acquire() wait
locked_never(value) == FALSE

\* asyncio.Semaphore.locked(): acquire() waits while it holds
locked(value) == value = 0

\* bounded_download enters `async with semaphore`, download_image stores the
\* URL in the metadata dict (line 165) and issues the request. On a closed
\* session the request raises RuntimeError at once.
Acquire(i) ==
    /\ i \in DOMAIN pc
    /\ pc[i] = "waiting"
    /\ ~locked(semaphore)
    /\ heap' = [heap EXCEPT ![tasks[i].meta] =
                    [k \in DOMAIN @ \cup {"url"} |->
                        IF k = "url" THEN tasks[i].url ELSE @[k]]]
    /\ IF session = "closed"
       THEN /\ \E cb \in BOOLEAN :
                 LET r == ExceptClause(stats, incs[i], events[i], tasks[i].url, ReasonText, cb)
                 IN  /\ stats' = r.stats
                     /\ incs' = [incs EXCEPT ![i] = r.incs]
                     /\ events' = [events EXCEPT ![i] = r.events]
                     /\ pc' = [pc EXCEPT ![i] = r.pc]
            /\ cause' = [cause EXCEPT ![i] = "session_closed"]
            /\ UNCHANGED semaphore
       ELSE /\ pc' = [pc EXCEPT ![i] = "get"]
            /\ semaphore' = semaphore - 1
            /\ UNCHANGED << stats, incs, events, cause >>
    /\ UNCHANGED << config_vars, session, run_state, runs, submitted, image_urls, metadata_list,
                    tasks, content_type, dirs, files, stats_at_start,
                    received, placed, downloaded_into >>

\* The request fails: aiohttp.ClientError, or the timeout (an OSError or a
\* plain Exception, depending on the Python version); each is caught by one
\* of the three except clauses, which differ in the prefix of the reason only.
GetFails(i) ==
    /\ i \in DOMAIN pc
    /\ pc[i] = "get"
    /\ \E cb \in BOOLEAN :
          Leave(i, ExceptClause(stats, incs[i], events[i], tasks[i].url, ReasonText, cb))
    /\ cause' = [cause EXCEPT ![i] = "transport"]
    /\ UNCHANGED << config_vars, session, run_state, runs, submitted, image_urls,
                    metadata_list, heap, tasks, dirs, files, stats_at_start,
                    received, placed, downloaded_into >>

\* A response arrives whose status is not 200: return None (lines 170-171).
GetStatusNot200(i) ==
    /\ i \in DOMAIN pc
    /\ pc[i] = "get"
    /\ \E status \in StatusCodes \ {200} :
          /\ pc' = [pc EXCEPT ![i] = "done"]
          /\ cause' = [cause EXCEPT ![i] = "status"]
    /\ semaphore' = semaphore + 1
    /\ UNCHANGED << config_vars, session, stats, run_state, runs, submitted, image_urls,
                    metadata_list, heap, tasks, content_type, dirs, files,
                    incs, events, stats_at_start,
                    received, placed, downloaded_into >>

\* A response with status 200 arrives: keep its content type, await the body.
GetStatus200(i) ==
    /\ i \in DOMAIN pc
    /\ pc[i] = "get"
    /\ \E ct \in ContentTypes : content_type' = [content_type EXCEPT ![i] = ct]
    /\ pc' = [pc EXCEPT ![i] = "read"]
    /\ UNCHANGED << config_vars, session, stats, run_state, runs, submitted, image_urls,
                    metadata_list, heap, tasks, semaphore, dirs, files,
                    incs, events, cause, stats_at_start,
                    received, placed, downloaded_into >>

\* response.read() fails
ReadFails(i) ==
    /\ i \in DOMAIN pc
    /\ pc[i] = "read"
    /\ \E cb \in BOOLEAN :
          Leave(i, ExceptClause(stats, incs[i], events[i], tasks[i].url, ReasonText, cb))
    /\ cause' = [cause EXCEPT ![i] = "transport"]
    /\ UNCHANGED << config_vars, session, run_state, runs, submitted, image_urls,
                    metadata_list, heap, tasks, dirs, files, stats_at_start,
                    received, placed, downloaded_into >>

\* open(filepath, 'wb') followed by f.write: the file at filepath is replaced
WriteFile(fs, filepath, size) ==
    { f \in fs : f.category # filepath.category \/ f.filename # filepath.filename }
    \cup { [category |-> filepath.category, filename |-> filepath.filename, size |-> size] }

\* The body has arrived: lines 174-211 and the except clauses, which run
\* without an await in between. The environment chooses the bytes, whether
\* mkdir, open and write succeed, and what the callback does.
ReadBody(i) ==
    /\ i \in DOMAIN pc
    /\ pc[i] = "read"
    /\ \E image_data \in Bodies :
        LET url == tasks[i].url
            metadata == heap[tasks[i].meta]
            verdict == check_image(image_filter, image_data)
        IN  \/ /\ verdict = "raise"
               /\ received' = [received EXCEPT ![i] = image_data.decode]
               /\ \E cb \in BOOLEAN :
                     Leave(i, ExceptClause(stats, incs[i], events[i], url, ReasonText, cb))
               /\ cause' = [cause EXCEPT ![i] = "decoder"]
               /\ UNCHANGED << dirs, files, placed, downloaded_into >>
            \/ /\ verdict = "False"
               /\ received' = [received EXCEPT ![i] = image_data.decode]
               /\ \E cb1 \in BOOLEAN, cb2 \in BOOLEAN :
                     /\ Leave(i, FilteredBranch(stats, incs[i], events[i], url, cb1, cb2))
                     /\ cause' = [cause EXCEPT ![i] =
                                     IF CallbackRaises(cb1) THEN "callback" ELSE "none"]
               /\ UNCHANGED << dirs, files, placed, downloaded_into >>
            \/ /\ verdict = "True"
               /\ received' = [received EXCEPT ![i] = image_data.decode]
               /\ LET category == Categorized[metadata]
                      extension == get_image_extension(url, content_type[i])
                      filename == generate_filename(url, metadata, extension)
                      filepath == [category |-> category, filename |-> filename]
                  IN  \/ \* category_dir.mkdir raises OSError
                         /\ \E cb \in BOOLEAN :
                               Leave(i, ExceptClause(stats, incs[i], events[i], url,
                                                     ReasonText, cb))
                         /\ cause' = [cause EXCEPT ![i] = "storage"]
                         /\ UNCHANGED << dirs, files, placed, downloaded_into >>
                      \/ \* open raises OSError: no file; write raises: a partial file
                         /\ \E cb \in BOOLEAN :
                               Leave(i, ExceptClause(stats, incs[i], events[i], url,
                                                     ReasonText, cb))
                         /\ cause' = [cause EXCEPT ![i] = "storage"]
                         /\ dirs' = dirs \cup {category}
                         /\ \/ files' = files
                            \/ files' = WriteFile(files, filepath, 0)
                         /\ UNCHANGED << placed, downloaded_into >>
                      \/ \* the file is written
                         /\ \E cb1 \in BOOLEAN, cb2 \in BOOLEAN :
                               /\ Leave(i, DownloadedBranch(stats, incs[i], events[i], url,
                                                            category, filepath, cb1, cb2))
                               /\ cause' = [cause EXCEPT ![i] =
                                     IF CallbackRaises(cb1) THEN "callback" ELSE "none"]
                         /\ dirs' = dirs \cup {category}
                         /\ files' = WriteFile(files, filepath, image_data.len)
                         /\ placed' = [placed EXCEPT ![i] = filepath]
                         /\ downloaded_into' = downloaded_into \cup {category}
    /\ UNCHANGED << config_vars, session, run_state, runs, submitted, image_urls,
                    metadata_list, heap, tasks, stats_at_start >>

(* ------------------- gather, finally, asyncio.run ---------------------- *)

\* Every task returned: gather returns, the finally clause closes the
\* session, download_images returns.
Return ==
    /\ run_state = "running"
    /\ \A i \in DOMAIN pc : pc[i] = "done"
    /\ session' = "closed"
    /\ run_state' = "returned"
    /\ UNCHANGED << config_vars, stats, runs, submitted, image_urls, metadata_list, heap, tasks,
                    pc, semaphore, content_type, dirs, files, incs, events, cause,
                    stats_at_start,
                    received, placed, downloaded_into >>

\* A task raised: gather passes the exception on without waiting for the
\* other tasks, which stay scheduled; the finally clause closes the session
\* and download_images raises.
Abort ==
    /\ run_state = "running"
    /\ \E i \in DOMAIN pc : pc[i] = "raised"
    /\ session' = "closed"
    /\ run_state' = "raised"
    /\ UNCHANGED << config_vars, stats, runs, submitted, image_urls, metadata_list, heap, tasks,
                    pc, semaphore, content_type, dirs, files, incs, events, cause,
                    stats_at_start,
                    received, placed, downloaded_into >>

\* download_images_sync: when download_images has raised, asyncio.run cancels
\* the tasks still pending; CancelledError is no Exception, so no except
\* clause of download_image runs and only the semaphore slot is released.
Cancel(i) ==
    /\ run_state = "raised"
    /\ i \in DOMAIN pc
    /\ pc[i] \in {"waiting", "get", "read"}
    /\ pc' = [pc EXCEPT ![i] = "cancelled"]
    /\ semaphore' = IF pc[i] = "waiting" THEN semaphore ELSE semaphore + 1
    /\ content_type' = [content_type EXCEPT ![i] = ""]
    /\ UNCHANGED << config_vars, session, stats, run_state, runs, submitted, image_urls,
                    metadata_list, heap, tasks, dirs, files,
                    incs, events, cause, stats_at_start,
                    received, placed, downloaded_into >>

Next ==
    \/ \E urls \in SeqsUpTo(Urls, MaxUrls), mlist \in MetadataLists :
          download_images(urls, mlist)
    \/ \E i \in 1..MaxUrls :
          \/ Acquire(i)
          \/ GetFails(i)
          \/ GetStatusNot200(i)
          \/ GetStatus200(i)
          \/ ReadFails(i)
          \/ ReadBody(i)
          \/ Cancel(i)
    \/ Return
    \/ Abort

Spec == Init /\ [][Next]_vars

(* ------------------- the run under its scheduling ---------------------- *)

\* A step of the current run: every action but a new call of download_images
RunStep ==
    \/ \E i \in 1..MaxUrls :
          \/ Acquire(i)
          \/ GetFails(i)
          \/ GetStatusNot200(i)
          \/ GetStatus200(i)
          \/ ReadFails(i)
          \/ ReadBody(i)
          \/ Cancel(i)
    \/ Return
    \/ Abort

\* The event loop runs every task that can run (the semaphore wakes its
\* waiters in turn), every issued request ends in a response or an error and
\* every awaited body in bytes or an error, at the latest by the
\* ClientTimeout of lines 168 and 240; gather, the finally clause and
\* asyncio.run take their steps. Nothing obliges the caller to start a run.
Fairness ==
    /\ \A i \in 1..MaxUrls :
          /\ SF_vars(Acquire(i))
          /\ WF_vars(GetFails(i) \/ GetStatusNot200(i) \/ GetStatus200(i))
          /\ WF_vars(ReadFails(i) \/ ReadBody(i))
          /\ WF_vars(Cancel(i))
    /\ WF_vars(Return)
    /\ WF_vars(Abort)

SpecLive == Init /\ [][Next]_vars /\ Fairness

(* ------------- ImageFilter.check_image called directly ---------------- *)

\* Aspect ratio thresholds: -1, 0, 1.5 and 3.0
Ratios == { [num |-> -1, den |-> 1], [num |-> 0, den |-> 1],
            [num |-> 3, den |-> 2], [num |-> 3, den |-> 1] }

\* ImageFilter(...) for every choice of the five thresholds within the bounds
FilterConfigs ==
    { ImageFilter(mw, mh, lo, hi, ms) :
        mw \in 0..MaxDim, mh \in 0..MaxDim, lo \in Ratios, hi \in Ratios, ms \in 0..MaxLen }

\* Byte buffers: a length, and what Image.open makes of them
FilterInputs ==
    { [len |-> n, decode |-> "ok", width |-> w, height |-> h] :
        n \in 0..MaxLen, w \in 0..MaxDim, h \in 0..MaxDim }
    \cup { [len |-> n, decode |-> d, width |-> 0, height |-> 0] :
        n \in 0..MaxLen, d \in {"UnidentifiedImageError", "DecompressionBombError"} }

InitFilter ==
    /\ concurrent_downloads = 1
    /\ categorizer_arg = "None"
    /\ categorizer = init_categorizer(categorizer_arg)
    /\ image_filter \in FilterConfigs
    /\ progress_callback = "None"
    /\ Fresh

\* image_filter.check_image(image_data)
CheckImage(image_data) ==
    /\ call' = [fn |-> "check_image", arg |-> image_data,
                result |-> check_image(image_filter, image_data)]
    /\ UNCHANGED << concurrent_downloads, categorizer_arg, categorizer, image_filter,
                    progress_callback, session, stats, run_state, runs, submitted,
                    image_urls, metadata_list, heap, tasks, pc, semaphore,
                    content_type, dirs, files, incs, events, cause, stats_at_start,
                    received, placed, downloaded_into, snapshot >>

NextFilter == \E image_data \in FilterInputs : CheckImage(image_data)

SpecFilter == InitFilter /\ [][NextFilter]_vars

(* --------------- Categorizer.categorize called directly ---------------- *)

\* Every variable but `call`: what a direct call of a policy method leaves alone
scraper_vars == << concurrent_downloads, categorizer_arg, categorizer, image_filter,
                  progress_callback, session, stats, run_state, runs, submitted,
                  image_urls, metadata_list, heap, tasks, pc, semaphore, content_type,
                  dirs, files, incs, events, cause, stats_at_start,
                  received, placed, downloaded_into, snapshot >>

\* A scraper with the default arguments, before any run
InitPolicy ==
    /\ concurrent_downloads = 1
    /\ categorizer_arg = "None"
    /\ categorizer = init_categorizer(categorizer_arg)
    /\ image_filter = DefaultImageFilter
    /\ progress_callback = "None"
    /\ Fresh

\* Categorizer.__init__: self.keywords = keywords or config.CATEGORY_KEYWORDS
\* (None and the empty dict both give the default table)
Categorizer(keywords) == IF Len(keywords) = 0 THEN CATEGORY_KEYWORDS ELSE keywords

\* A caller's table whose two categories share the keyword 'cat'
PinnedKeywords ==
    << [category |-> "zoo",  keywords |-> << <<"c","a","t">> >>],
       [category |-> "pets", keywords |-> << <<"c","a","t">>, <<"d","o","g">> >>] >>

KeywordTables == { << >>, CATEGORY_KEYWORDS, PinnedKeywords }

\* Texts: 'Space Cat' scores 1 for space and for animals, 'Cat Dog Star'
\* 2 for animals and 1 for space, 'NEBULA' matches only once lower-cased,
\* 'plain' matches nothing
T_tie == <<"S","p","a","c","e"," ","C","a","t">>
T_later == <<"C","a","t"," ","D","o","g"," ","S","t","a","r">>
T_upper == <<"N","E","B","U","L","A">>
T_plain == <<"p","l","a","i","n">>
Texts == { T_tie, T_later, T_upper, T_plain }

\* Metadata dicts: each of 'title', 'description', 'alt' absent or a text,
\* 'url' absent or a URL
CategorizeInputs ==
    { [k \in ks |-> IF k = "url" THEN u ELSE IF k = "title" THEN t
                     ELSE IF k = "description" THEN d ELSE a] :
        ks \in SUBSET {"title", "description", "alt", "url"},
        t \in Texts, d \in {T_tie, T_plain}, a \in {T_later, T_plain}, u \in Urls }

\* categorize over these tables and dicts, computed once
CategorizeResults ==
    [keywords \in KeywordTables |->
        [metadata \in CategorizeInputs |-> categorize(Categorizer(keywords), metadata)]]

\* Categorizer(keywords).categorize(metadata)
Categorize(keywords, metadata) ==
    /\ call' = [fn |-> "categorize", keywords |-> Categorizer(keywords), arg |-> metadata,
                result |-> CategorizeResults[keywords][metadata]]
    /\ UNCHANGED scraper_vars

NextCategorize ==
    \E keywords \in KeywordTables, metadata \in CategorizeInputs :
        Categorize(keywords, metadata)

SpecCategorize == InitPolicy /\ [][NextCategorize]_vars

(* ------------ the naming helpers of WallpaperScraper called directly ---- *)

\* URLs: with each supported extension, in upper case, with the extension in
\* the query only, before a fragment, with none, with an unsupported one;
\* U_9260 and U_16307 are http://x.co/9260.jpg and http://x.co/16307.jpg
NamingUrls == { U_plain, U_cat, U_query, U_webp, U_upper, U_qext, U_jpeg, U_frag, U_gif,
                U_9260, U_16307 }

\* Content types: a missing header, the four of ext_map, and others
NamingContentTypes == { "", "image/jpeg", "image/png", "image/webp", "image/bmp",
                        "image/gif", "text/html", "IMAGE/PNG" }

\* Metadata dicts: no title, an empty title, two titles
T_punct == <<"B","i","g","-","C","i","t","y"," "," ","L","i","g","h","t","s","!">>
NamingMetadata == { EmptyDict, [k \in {"title"} |-> << >>],
                    [k \in {"title"} |-> T_space], [k \in {"title"} |-> T_punct] }

NamingExtensions == { SUPPORTED_FORMATS[1], SUPPORTED_FORMATS[3] }

\* The two helpers over these inputs, computed once
ExtensionResults ==
    [url \in NamingUrls |->
        [ctype \in NamingContentTypes |-> get_image_extension(url, ctype)]]
FilenameResults ==
    [url \in NamingUrls |->
        [metadata \in NamingMetadata |->
            [extension \in NamingExtensions |-> generate_filename(url, metadata, extension)]]]

\* No earlier _generate_filename call
NoNaming == [url |-> << >>, metadata |-> EmptyDict, extension |-> << >>, result |-> << >>]

\* scraper._get_image_extension(url, content_type)
GetImageExtension(url, ctype) ==
    /\ call' = [fn |-> "_get_image_extension", url |-> url, content_type |-> ctype,
                result |-> ExtensionResults[url][ctype]]
    /\ UNCHANGED scraper_vars

\* scraper._generate_filename(url, metadata, extension); `previous` keeps
\* the _generate_filename call made just before, if any
GenerateFilename(url, metadata, extension) ==
    /\ call' = [fn |-> "_generate_filename", url |-> url, metadata |-> metadata,
                extension |-> extension,
                result |-> FilenameResults[url][metadata][extension],
                previous |-> IF call.fn = "_generate_filename"
                             THEN [url |-> call.url, metadata |-> call.metadata,
                                   extension |-> call.extension, result |-> call.result]
                             ELSE NoNaming]
    /\ UNCHANGED scraper_vars

NextNaming ==
    \/ \E url \in NamingUrls, ctype \in NamingContentTypes :
          GetImageExtension(url, ctype)
    \/ \E url \in NamingUrls, metadata \in NamingMetadata, extension \in NamingExtensions :
          GenerateFilename(url, metadata, extension)

SpecNaming == InitPolicy /\ [][NextNaming]_vars

(* ------------------- get_stats and what its caller does ---------------- *)

\* Every variable but stats, snapshot and call
run_vars == << concurrent_downloads, categorizer_arg, categorizer, image_filter,
              progress_callback, session, run_state, runs, submitted,
              image_urls, metadata_list, heap, tasks, pc, semaphore, content_type,
              dirs, files, incs, events, cause, stats_at_start,
              received, placed, downloaded_into >>

\* stats = scraper.get_stats(), called once download_images_sync has returned
\* (as cli.py and gui.py do): return self.stats.copy()
get_stats ==
    /\ run_state = "returned"
    /\ snapshot' = [taken |-> TRUE, total |-> stats.total, downloaded |-> stats.downloaded,
                    filtered |-> stats.filtered, failed |-> stats.failed,
                    at_call |-> stats, edited |-> FALSE, reached_scraper |-> FALSE]
    /\ UNCHANGED << run_vars, stats, call >>

\* The dict as its caller reads it
SnapshotValue ==
    [total |-> snapshot.total, downloaded |-> snapshot.downloaded,
     filtered |-> snapshot.filtered, failed |-> snapshot.failed,
     categories |-> stats.categories]

\* What a caller writes into the dict
EditedValue == 7

\* The caller assigns snapshot['downloaded'] = value
EditSnapshot(value) ==
    /\ snapshot.taken
    /\ run_state # "running"
    /\ snapshot' = [snapshot EXCEPT !.downloaded = value, !.edited = TRUE]
    /\ UNCHANGED << run_vars, stats, call >>

\* The caller assigns snapshot['categories'][category] = value
EditSnapshotCategories(category, value) ==
    /\ snapshot.taken
    /\ run_state # "running"
    /\ stats' = [stats EXCEPT !.categories =
                    [c \in DOMAIN @ \cup {category} |-> IF c = category THEN value ELSE @[c]]]
    /\ snapshot' = [snapshot EXCEPT !.edited = TRUE,
                                    !.reached_scraper = @ \/ stats' # stats]
    /\ UNCHANGED << run_vars, call >>

\* A scraper without a progress callback, its runs, and a caller of get_stats
InitSnapshot ==
    /\ concurrent_downloads = 1
    /\ categorizer_arg = "None"
    /\ categorizer = init_categorizer(categorizer_arg)
    /\ image_filter = DefaultImageFilter
    /\ progress_callback = "None"
    /\ Fresh

NextSnapshot ==
    \/ \E urls \in SeqsUpTo(Urls, MaxUrls), mlist \in MetadataLists :
          download_images(urls, mlist)
    \/ \E i \in 1..MaxUrls :
          \/ Acquire(i)
          \/ GetFails(i)
          \/ GetStatusNot200(i)
          \/ GetStatus200(i)
          \/ ReadFails(i)
          \/ ReadBody(i)
    \/ Return
    \/ get_stats
    \/ EditSnapshot(EditedValue)
    \/ EditSnapshotCategories("space", EditedValue)

SpecSnapshot == InitSnapshot /\ [][NextSnapshot]_vars

(* ----------------- extract_image_urls called directly ------------------ *)

\* Longest document, in <img> elements
MaxImgs == 2

\* The page's URL, and two references relative to it
U_page == <<"h","t","t","p",":","/","/","x",".","c","o","/","d","i","r","/","p","a","g","e",".","h","t","m","l">>
R_root == <<"/","a",".","p","n","g">>
R_name == <<"c","a","t",".","j","p","g">>

\* <img> elements: without attributes; with a relative src; with a relative
\* data-src only; with src and data-src; with an empty src and a data-src;
\* with an empty src only; with src, title and alt
ImgElements ==
    { EmptyDict,
      [k \in {"src"} |-> R_root],
      [k \in {"data-src"} |-> R_name],
      [k \in {"src", "data-src"} |-> IF k = "src" THEN U_plain ELSE U_cat],
      [k \in {"src", "data-src"} |-> IF k = "src" THEN << >> ELSE U_cat],
      [k \in {"src"} |-> << >>],
      [k \in {"src", "title", "alt"} |->
          IF k = "src" THEN U_webp ELSE IF k = "title" THEN T_space ELSE T_plain] }

Documents == SeqsUpTo(ImgElements, MaxImgs)

\* base_url: None, or the page's URL
BaseUrls == { << >>, U_page }

\* extract_image_urls over these documents, computed once
ExtractResults ==
    [base_url \in BaseUrls |-> [imgs \in Documents |-> extract_image_urls(imgs, base_url)]]

\* extract_image_urls(html_content, base_url)
ExtractImageUrls(imgs, base_url) ==
    /\ call' = [fn |-> "extract_image_urls", imgs |-> imgs, base_url |-> base_url,
                result |-> ExtractResults[base_url][imgs]]
    /\ UNCHANGED scraper_vars

NextExtract ==
    \E imgs \in Documents, base_url \in BaseUrls : ExtractImageUrls(imgs, base_url)

SpecExtract == InitPolicy /\ [][NextExtract]_vars

(* ============================ properties ============================== *)

\* Candidates holding an admission slot: request issued, no outcome yet
Holding == { i \in DOMAIN pc : pc[i] \in {"get", "read"} }

\* Candidate i made a terminal transition (Downloaded, Filtered or Failed)
HasOutcome(i) == i \in DOMAIN incs /\ incs[i] # << >>

\* Number of candidates of the current run that emitted an event of this kind
EventsOfKind(kind) ==
    Cardinality({ i \in DOMAIN events : \E e \in 1..Len(events[i]) : events[i][e].kind = kind })

\* C1: when download_images returns, downloaded + filtered + failed = total.
\* Stated for the first run of a scraper in which every URL was given a task,
\* where the counters and total are about the same candidates.
C1_CountersSumToTotal ==
    (run_state = "returned" /\ runs = 1 /\ Len(tasks) = Len(image_urls)) =>
        stats.downloaded + stats.filtered + stats.failed = stats.total

\* C2: no candidate increments more than one of the counters downloaded,
\* filtered, failed, nor one of them twice, whatever the callback does.
C2_OneOutcomePerCandidate ==
    \A i \in DOMAIN incs : Len(incs[i]) <= 1

\* C3: with a callback set, when the run returns every candidate passed to
\* download_images has had exactly one callback call, of the kind of the
\* counter incremented for it; the events number stats.total and the events
\* of each kind number the counter of that kind. Stated for the first run of
\* a scraper in which every URL was given a task.
C3_OneEventPerCandidate ==
    ( /\ progress_callback # "None"
      /\ run_state = "returned"
      /\ runs = 1
      /\ Len(tasks) = Len(image_urls) ) =>
        /\ \A i \in DOMAIN tasks :
              /\ Len(events[i]) = 1
              /\ Len(incs[i]) = 1
              /\ events[i][1].kind = incs[i][1]
              /\ events[i][1].url = tasks[i].url
        /\ stats.total = Len(tasks)
        /\ EventsOfKind("downloaded") = stats.downloaded
        /\ EventsOfKind("filtered") = stats.filtered
        /\ EventsOfKind("failed") = stats.failed

\* C4: at every moment at most concurrent_downloads candidates hold an
\* admission slot, and a waiting candidate is admitted only when fewer than
\* concurrent_downloads hold one.
C4_BoundedAdmission ==
    /\ [](Cardinality(Holding) <= concurrent_downloads)
    /\ [][\A i \in DOMAIN pc :
            (pc[i] = "waiting" /\ i \in DOMAIN pc' /\ pc'[i] \notin {"waiting", "cancelled"})
            => Cardinality(Holding) < concurrent_downloads]_vars

\* C4 witness: every slot is taken and a further candidate waits.
C4_Witness ==
    /\ concurrent_downloads >= 1
    /\ Cardinality(Holding) = concurrent_downloads
    /\ \E i \in DOMAIN pc : pc[i] = "waiting"
    /\ run_state = "running"

\* C5: a candidate whose response status is not 200 is counted as failed once
\* and reported by one 'failed' event; one HTTP 500 and one accepted HTTP 200
\* in a fresh scraper's run give total = 2, failed = 1, downloaded = 1.
C5_Not200IsFailed ==
    /\ \A i \in DOMAIN cause :
          cause[i] = "status" =>
              /\ incs[i] = << "failed" >>
              /\ progress_callback # "None" =>
                    /\ Len(events[i]) = 1
                    /\ events[i][1].kind = "failed"
                    /\ events[i][1].url = tasks[i].url
    /\ ( /\ run_state = "returned"
         /\ runs = 1
         /\ Len(tasks) = 2
         /\ \E i \in DOMAIN tasks, j \in DOMAIN tasks :
               cause[i] = "status" /\ cause[j] = "none" /\ "downloaded" \in Range(incs[j]) )
       => (stats.total = 2 /\ stats.failed = 1 /\ stats.downloaded = 1)

\* C6: a candidate with a transport or storage failure is counted as failed
\* exactly once and as nothing else, is reported by one 'failed' event with
\* its URL and a reason, and the run is not aborted by it: download_images
\* does not raise, and when it returns every candidate has its outcome.
C6_FailureIsIsolated ==
    \A i \in DOMAIN cause :
        (cause[i] \in {"transport", "storage"} /\ Finished(pc[i])) =>
            /\ incs[i] = << "failed" >>
            /\ progress_callback # "None" =>
                  events[i] = << [kind |-> "failed", url |-> tasks[i].url,
                                  detail |-> ReasonText] >>
            /\ run_state # "raised"
            /\ run_state = "returned" =>
                  \A j \in DOMAIN tasks : HasOutcome(j)

\* C7: download_images returns only when every URL of image_urls has its
\* outcome, whatever metadata_list was; no task is left running when the
\* call is over (so nothing is counted or reported later), and the session
\* is closed only when every task is finished.
C7_ReturnsAfterAllOutcomes ==
    /\ run_state = "returned" =>
          \A k \in 1..Len(image_urls) : HasOutcome(k)
    /\ run_state \in {"returned", "raised"} =>
          \A i \in DOMAIN pc : Finished(pc[i])
    /\ session = "closed" =>
          \A i \in DOMAIN pc : Finished(pc[i])

\* C8: a scraper constructed with categorizer=None stores every downloaded
\* image under 'uncategorized'.
C8_NoCategorizerMeansUncategorized ==
    categorizer_arg = "None" =>
        /\ \A f \in files : f.category = "uncategorized"
        /\ dirs \subseteq {"uncategorized"}
        /\ DOMAIN stats.categories \subseteq {"uncategorized"}

\* C9: every run starts from zeroed statistics: downloaded, filtered and
\* failed are 0 and categories is empty when a call of download_images begins.
C9_RunStartsFromZero ==
    /\ stats_at_start.downloaded = 0
    /\ stats_at_start.filtered = 0
    /\ stats_at_start.failed = 0
    /\ DOMAIN stats_at_start.categories = {}

\* C10: under every filter configuration check_image rejects a buffer
\* shorter than min_file_size whatever it decodes to, and rejects an image
\* whose decoded height is 0.
C10_SmallOrFlatRejected ==
    call.fn = "check_image" =>
        /\ call.arg.len < image_filter.min_file_size => call.result = "False"
        /\ (call.arg.decode = "ok" /\ call.arg.height = 0) => call.result = "False"

\* C11: check_image accepts a decodable image with height > 0 exactly when
\* the buffer has at least min_file_size bytes, the image is at least
\* min_width wide and min_height high, and min_aspect_ratio <= width/height
\* <= max_aspect_ratio with both bounds included; a filter whose
\* min_aspect_ratio exceeds its max_aspect_ratio accepts nothing.
C11_AcceptsExactlyWithinThresholds ==
    call.fn = "check_image" =>
        LET d  == call.arg
            lo == image_filter.min_aspect_ratio
            hi == image_filter.max_aspect_ratio
        IN  /\ (d.decode = "ok" /\ d.height > 0) =>
                (call.result = "True" <=>
                    /\ d.len >= image_filter.min_file_size
                    /\ d.width >= image_filter.min_width
                    /\ d.height >= image_filter.min_height
                    /\ lo.num * d.height <= d.width * lo.den
                    /\ d.width * hi.den <= hi.num * d.height)
            /\ lo.num * hi.den > hi.num * lo.den => call.result # "True"

\* An image whose ratio equals both bounds has been accepted
C11_Witness ==
    /\ call.fn = "check_image"
    /\ call.result = "True"
    /\ call.arg.height > 0
    /\ call.arg.width * image_filter.min_aspect_ratio.den
           = image_filter.min_aspect_ratio.num * call.arg.height
    /\ call.arg.width * image_filter.max_aspect_ratio.den
           = image_filter.max_aspect_ratio.num * call.arg.height

\* C12: a candidate whose body arrived with status 200 but cannot be decoded
\* as an image, whatever the decoder's error, is counted as filtered and as
\* nothing else, reported by one 'filtered' event, and has no file written
\* for it. (Stated for candidates whose callback calls returned.)
C12_UndecodableIsFiltered ==
    \A i \in DOMAIN pc :
        (/\ received[i] \in {"UnidentifiedImageError", "DecompressionBombError"}
         /\ cause[i] # "callback") =>
            /\ incs[i] = << "filtered" >>
            /\ progress_callback # "None" =>
                    [k \in DOMAIN events[i] |-> events[i][k].kind] = << "filtered" >>
            /\ placed[i] = NoPath

\* The keywords of a table entry that occur in at least one of the
\* lower-cased 'title', 'description', 'alt' and 'url' values of a dict
KeywordHits(entry, metadata) ==
    { k \in 1..Len(entry.keywords) :
        \E field \in {"title", "description", "alt", "url"} \cap DOMAIN metadata :
            Contains(Lower(metadata[field]), entry.keywords[k]) }

\* C13: categorize returns 'uncategorized' when no category has a keyword
\* occurring in the metadata's text values, and otherwise the category with
\* the most such keywords, the earliest in the table among those with the most.
C13_FirstMaximalCategory ==
    call.fn = "categorize" =>
        LET table == call.keywords
            hits == [c \in 1..Len(table) |-> Cardinality(KeywordHits(table[c], call.arg))]
        IN  IF \A c \in 1..Len(table) : hits[c] = 0
            THEN call.result = "uncategorized"
            ELSE \E c \in 1..Len(table) :
                    /\ call.result = table[c].category
                    /\ \A d \in 1..Len(table) : hits[d] <= hits[c]
                    /\ \A d \in 1..(c - 1) : hits[d] < hits[c]

\* A tie was broken: two categories have the maximal score, the earlier one was returned
C13_Witness ==
    /\ call.fn = "categorize"
    /\ call.result = "space"
    /\ Cardinality(KeywordHits(call.keywords[2], call.arg)) = 1
    /\ Cardinality(KeywordHits(call.keywords[5], call.arg)) = 1

\* C14: the extension is the one mapped from the content type when that is
\* image/jpeg, image/png, image/webp or image/bmp, whatever the URL;
\* otherwise the supported extension the URL's path ends with (in any letter
\* case); otherwise .jpg. It is always a supported extension.
C14_ExtensionResolutionOrder ==
    call.fn = "_get_image_extension" =>
        LET path == Lower(UrlPath(call.url))
            supported == Range(SUPPORTED_FORMATS)
        IN  /\ call.result \in supported
            /\ call.content_type = "image/jpeg" => call.result = <<".","j","p","g">>
            /\ call.content_type = "image/png" => call.result = <<".","p","n","g">>
            /\ call.content_type = "image/webp" => call.result = <<".","w","e","b","p">>
            /\ call.content_type = "image/bmp" => call.result = <<".","b","m","p">>
            /\ call.content_type \notin {"image/jpeg", "image/png", "image/webp", "image/bmp"} =>
                  IF \E ext \in supported : EndsWith(path, ext)
                  THEN EndsWith(path, call.result)
                  ELSE call.result = <<".","j","p","g">>
            /\ (call.url = U_query /\ call.content_type = "image/png") =>
                  call.result = <<".","p","n","g">>
            /\ (call.url = U_webp /\ call.content_type = "") =>
                  call.result = <<".","w","e","b","p">>

\* The content type image/png decided against a URL ending in .jpg
C14_Witness ==
    /\ call.fn = "_get_image_extension"
    /\ call.url = U_cat
    /\ call.content_type = "image/png"
    /\ call.result = <<".","p","n","g">>

\* C15: two _generate_filename calls with different URLs, the same title (or
\* both without one) and the same extension return different filenames.
C15_DistinctUrlsDistinctFilenames ==
    (/\ call.fn = "_generate_filename"
     /\ call.previous # NoNaming
     /\ call.previous.url # call.url
     /\ call.previous.metadata = call.metadata
     /\ call.previous.extension = call.extension) =>
        call.previous.result # call.result

\* C16: the dict get_stats returned and the scraper's stats are independent:
\* no change the caller makes to the dict, entries of its 'categories'
\* included, changes self.stats, and as long as the caller has not changed
\* the dict it reads as self.stats did when get_stats was called.
C16_SnapshotIsIndependent ==
    snapshot.taken =>
        /\ ~snapshot.reached_scraper
        /\ ~snapshot.edited => SnapshotValue = snapshot.at_call

\* The result lists, in document order, exactly the elements for which
\* source(img) gives a URL that resolves to a well-formed absolute one, each
\* with that resolved URL
ListsSources(source(_)) ==
    \E pos \in [1..Len(call.result) -> 1..Len(call.imgs)] :
        /\ \A j, k \in DOMAIN pos : j < k => pos[j] < pos[k]
        /\ \A k \in DOMAIN pos :
              /\ source(call.imgs[pos[k]]) # << >>
              /\ call.result[k].url = resolve(source(call.imgs[pos[k]]), call.base_url)
              /\ validators_url(call.result[k].url)
        /\ \A p \in 1..Len(call.imgs) :
              (\A k \in DOMAIN pos : pos[k] # p) =>
                  \/ source(call.imgs[p]) = << >>
                  \/ ~validators_url(resolve(source(call.imgs[p]), call.base_url))

\* The src attribute whenever the element has one, data-src only when it has none
SrcWheneverPresent(img) ==
    IF "src" \in DOMAIN img THEN img["src"]
    ELSE IF "data-src" \in DOMAIN img THEN img["data-src"]
    ELSE << >>

\* The src attribute when the element has a non-empty one, data-src otherwise
SrcUnlessEmpty(img) ==
    IF "src" \in DOMAIN img /\ Len(img["src"]) > 0 THEN img["src"]
    ELSE IF "data-src" \in DOMAIN img THEN img["data-src"]
    ELSE << >>

\* C17 (as stated): extract_image_urls takes each element's URL from src
\* whenever the element has a src attribute and from data-src only when it
\* has none, returns the candidates in document order, and returns none for
\* an element without a URL or whose resolved URL is not well-formed.
C17_SrcWheneverPresent ==
    call.fn = "extract_image_urls" => ListsSources(SrcWheneverPresent)

\* C17 (amended): extract_image_urls takes each element's URL from src when
\* the element has a non-empty src attribute and from data-src when src is
\* absent or empty, returns the candidates in document order, and returns
\* none for an element without a URL or whose resolved URL is not well-formed.
C17_SrcUnlessEmpty ==
    call.fn = "extract_image_urls" => ListsSources(SrcUnlessEmpty)

\* An element with an empty src gave its data-src, after an element that gave its src
C17_Witness ==
    /\ call.fn = "extract_image_urls"
    /\ Len(call.imgs) = 2
    /\ Len(call.result) = 2
    /\ "src" \in DOMAIN call.imgs[1] /\ call.result[1].url = U_plain
    /\ "data-src" \in DOMAIN call.imgs[1]
    /\ "src" \in DOMAIN call.imgs[2] /\ call.imgs[2]["src"] = << >>
    /\ call.result[2].url = U_cat

\* categories.get(category, 0)
CountOf(categories, category) ==
    IF category \in DOMAIN categories THEN categories[category] ELSE 0

\* Candidates of the current run that made the Downloaded transition into a category
DownloadedInto(category) ==
    { i \in DOMAIN incs :
        /\ \E k \in 1..Len(incs[i]) : incs[i][k] = "downloaded"
        /\ placed[i].category = category }

\* C18: at every moment of a run, downloaded + filtered + failed has grown
\* since the run began by the number of candidates that have made their
\* terminal transition, and each categories[c] by the number of candidates
\* Downloaded into c.
C18_NoIncrementLost ==
    /\ (stats.downloaded + stats.filtered + stats.failed)
         - (stats_at_start.downloaded + stats_at_start.filtered + stats_at_start.failed)
       = Cardinality({ i \in DOMAIN incs : HasOutcome(i) })
    /\ \A c \in DOMAIN stats.categories \cup { placed[i].category : i \in DOMAIN placed } :
          c # NoPath.category =>
            CountOf(stats.categories, c) - CountOf(stats_at_start.categories, c)
                = Cardinality(DownloadedInto(c))

\* The metadata candidate i was submitted with: its entry of metadata_list,
\* or {} when download_images was called without one
OwnMetadata(i) ==
    IF metadata_list.none THEN EmptyDict ELSE metadata_list.list[i]

\* C19: the category and the file name of a downloaded candidate are those
\* its own URL, its own metadata and its own response give, whatever else is
\* in the run and however the downloads interleave, with and without a
\* metadata_list.
C19_CategoryFromOwnInputs ==
    \A i \in DOMAIN placed :
        placed[i] # NoPath =>
            LET own == OwnMetadata(i)
                seen == [k \in DOMAIN own \cup {"url"} |->
                            IF k = "url" THEN tasks[i].url ELSE own[k]]
            IN  /\ placed[i].category = categorize(keywords_of(categorizer), seen)
                /\ \E ctype \in ContentTypes :
                      placed[i].filename =
                          generate_filename(tasks[i].url, seen,
                                            get_image_extension(tasks[i].url, ctype))

RECURSIVE SumOver(_, _)
SumOver(f, keys) ==
    IF keys = {} THEN 0
    ELSE LET k == CHOOSE x \in keys : TRUE IN f[k] + SumOver(f, keys \ {k})

\* C20: between the steps of a run the values of stats.categories add up to
\* stats.downloaded, each is at least 1, and every key is a category some
\* candidate was downloaded into.
C20_CategoriesMatchDownloaded ==
    /\ SumOver(stats.categories, DOMAIN stats.categories) = stats.downloaded
    /\ \A c \in DOMAIN stats.categories : stats.categories[c] >= 1
    /\ DOMAIN stats.categories \subseteq downloaded_into

\* Two downloads have been counted, into two categories
C20_Witness ==
    /\ stats.downloaded = 2
    /\ Cardinality(DOMAIN stats.categories) = 2

\* Candidates of the current run whose file was written
Placed == { i \in DOMAIN placed : placed[i] # NoPath }

\* C21: when download_images returns, the distinct file paths written during
\* the run number stats.downloaded, and no two candidates wrote the same
\* path, whatever the input list (the same URL may occur twice). Stated for
\* the first run of a scraper, where stats.downloaded counts this run only.
C21_DistinctPathsPerRun ==
    (run_state = "returned" /\ runs = 1) =>
        /\ Cardinality({ placed[i] : i \in Placed }) = stats.downloaded
        /\ \A i, j \in Placed : i # j => placed[i] # placed[j]

\* download_images has returned with the session closed and every slot
\* released, and every URL it was given has acquired a slot and reached
\* Downloaded, Filtered or Failed
RunCompleted ==
    /\ run_state = "returned"
    /\ session = "closed"
    /\ semaphore = concurrent_downloads
    /\ \A i \in 1..Len(image_urls) : i \in DOMAIN pc /\ pc[i] = "done" /\ HasOutcome(i)

\* C22: with concurrent_downloads >= 1 and every fetch ending in a response
\* or an error, every candidate acquires a slot and reaches a terminal
\* outcome, every slot is released, and download_images returns with the
\* session closed. Every step of a run is taken in the end and a run has
\* finitely many, so this says: once no step of the run remains, the run has
\* completed. (Stated for calls in which every URL was given a task and no
\* candidate was answered with a status other than 200.)
C22_EveryRunCompletes ==
    ( /\ concurrent_downloads >= 1
      /\ runs >= 1
      /\ Len(tasks) = Len(image_urls)
      /\ \A i \in DOMAIN cause : cause[i] # "status"
      /\ ~ENABLED RunStep ) => RunCompleted
====
